---- MODULE Spec2Model ----
(***************************************************************************)
(* A model of src/main.ts: a library of independent helper functions       *)
(* (createSlug, toTitleCase, generateKey, encryptText, decryptText, sleep, *)
(* formatPrice).  Text is a sequence of characters; every host facility    *)
(* the helpers call (String methods, RegExp, JSON, TextEncoder/Decoder,    *)
(* crypto.subtle, setTimeout, parseFloat, Intl.NumberFormat) is modelled   *)
(* by what it computes.                                                    *)
(***************************************************************************)
EXTENDS Integers, Sequences, FiniteSets, TLC

VARIABLES
    slugPc, slugTitle, slugReplace, slugResult,   \* one createSlug call
    titlePc, titleStr, titleResult,               \* one toTitleCase call
    env,                                          \* the host: window, crypto, subtle
    genCalls,                                     \* the generateKey calls made
    encCalls,                                     \* the encryptText calls made
    rngLog,                                       \* the outcomes the random source gave
    decCalls,                                     \* the decryptText calls made
    now,                                          \* the host's clock
    sleepCalls,                                   \* the sleep calls made
    pricePc, priceArg, priceOpts, priceResult     \* one formatPrice call

slugVars   == <<slugPc, slugTitle, slugReplace, slugResult>>
titleVars  == <<titlePc, titleStr, titleResult>>
cryptoVars == <<env, genCalls, encCalls, rngLog, decCalls>>
sleepVars  == <<now, sleepCalls>>
priceVars  == <<pricePc, priceArg, priceOpts, priceResult>>
vars == <<slugVars, titleVars, cryptoVars, sleepVars, priceVars>>

(***************************************************************************)
(* Generic helpers on sequences.                                           *)
(***************************************************************************)
\* All sequences over S of length lo..hi.
SeqsOf(S, lo, hi) == UNION {[1..n -> S] : n \in lo..hi}

\* A call's outcome: a returned value, or a thrown Error with its message
\* (err is the message's fixed part, cause the wrapped cause when there is one).
Returned(v)      == [ok |-> TRUE,  val |-> v,    err |-> "",  cause |-> ""]
Thrown(e)        == [ok |-> FALSE, val |-> <<>>, err |-> e,   cause |-> ""]
ThrownBy(e, c)   == [ok |-> FALSE, val |-> <<>>, err |-> e,   cause |-> c]
NoResult         == [ok |-> FALSE, val |-> <<>>, err |-> "pending", cause |-> ""]

(***************************************************************************)
(* Characters.  The alphabet holds a representative of every class the     *)
(* string helpers tell apart.                                              *)
(***************************************************************************)
LowerSeq     == <<"a", "d", "e", "h", "l", "o", "r", "w">>
UpperSeq     == <<"A", "D", "E", "H", "L", "O", "R", "W">>
LowerLetters == {LowerSeq[i] : i \in DOMAIN LowerSeq}
UpperLetters == {UpperSeq[i] : i \in DOMAIN UpperSeq}
Digits       == {"1"}
Whitespace   == {" "}
Chars        == LowerLetters \cup UpperLetters \cup Digits \cup Whitespace
                    \cup {"-", "_", "!"}

\* \w, \d, \s of a RegExp without the u flag
WordChars  == LowerLetters \cup UpperLetters \cup Digits \cup {"_"}

\* String.prototype.toLowerCase / toUpperCase, one character
LowerOf(c) == IF c \in UpperLetters
              THEN LowerSeq[CHOOSE i \in DOMAIN UpperSeq : UpperSeq[i] = c] ELSE c
UpperOf(c) == IF c \in LowerLetters
              THEN UpperSeq[CHOOSE i \in DOMAIN LowerSeq : LowerSeq[i] = c] ELSE c

\* A toLowerCase that leaves the text as given
toLowerCase_Mut(s) == s

toLowerCase(s) == [i \in 1..Len(s) |-> LowerOf(s[i])]

\* String.prototype.trim
RECURSIVE TrimLeft(_)
TrimLeft(s) == IF s # <<>> /\ Head(s) \in Whitespace THEN TrimLeft(Tail(s)) ELSE s
RECURSIVE TrimRight(_)
TrimRight(s) ==
    IF s # <<>> /\ s[Len(s)] \in Whitespace
    THEN TrimRight(SubSeq(s, 1, Len(s) - 1)) ELSE s
trim(s) == TrimRight(TrimLeft(s))

(***************************************************************************)
(* RegExp.  A compiled pattern is a sequence of alternatives; an           *)
(* alternative is a sequence of atoms (each the set of characters it       *)
(* matches), optionally anchored, the last atom optionally quantified by   *)
(* "+".  Only the constructs createSlug's patterns use are modelled.       *)
(***************************************************************************)
EmptyAlt == [bol |-> FALSE, atoms |-> <<>>, plus |-> FALSE, eol |-> FALSE]

\* The atom "\c" compiles to, without the u flag: a character class escape,
\* a legacy octal escape (\1 with no capture group is U+0001, which no
\* character of the alphabet is), or the identity escape.
EscapeAtom(c) ==
    CASE c = "d" -> Digits
      [] c = "D" -> Chars \ Digits
      [] c = "w" -> WordChars
      [] c = "W" -> Chars \ WordChars
      [] c = "s" -> Whitespace
      [] c = "S" -> Chars \ Whitespace
      [] c = "1" -> {}
      [] OTHER   -> {c}

\* new RegExp(src): the alternatives of src, split at each unescaped "|"
RECURSIVE SplitAlts(_, _, _)
SplitAlts(src, i, cur) ==
    IF i > Len(src) THEN <<cur>>
    ELSE IF src[i] = "\\" THEN SplitAlts(src, i + 2, cur \o SubSeq(src, i, i + 1))
    ELSE IF src[i] = "|" THEN <<cur>> \o SplitAlts(src, i + 1, <<>>)
    ELSE SplitAlts(src, i + 1, Append(cur, src[i]))

\* new RegExp(src): one alternative, read left to right
RECURSIVE ParseAlt(_, _, _)
ParseAlt(src, i, alt) ==
    IF i > Len(src) THEN alt
    ELSE LET c == src[i] IN
         CASE c = "^"  -> ParseAlt(src, i + 1, [alt EXCEPT !.bol = TRUE])
           [] c = "$"  -> ParseAlt(src, i + 1, [alt EXCEPT !.eol = TRUE])
           [] c = "+"  -> ParseAlt(src, i + 1, [alt EXCEPT !.plus = TRUE])
           [] c = "\\" -> ParseAlt(src, i + 2,
                              [alt EXCEPT !.atoms = Append(@, EscapeAtom(src[i + 1]))])
           [] OTHER    -> ParseAlt(src, i + 1, [alt EXCEPT !.atoms = Append(@, {c})])

RegExp(src) ==
    LET alts == SplitAlts(src, 1, <<>>)
    IN  [k \in 1..Len(alts) |-> ParseAlt(alts[k], 1, EmptyAlt)]

\* The first index from j on whose character is not in set (greedy "+").
RECURSIVE Extend(_, _, _)
Extend(s, j, set) ==
    IF j <= Len(s) /\ s[j] \in set THEN Extend(s, j + 1, set) ELSE j

\* The index just after the match of alt starting at i, or 0 when there is none.
MatchEnd(s, i, alt) ==
    LET n == Len(alt.atoms) IN
    IF alt.bol /\ i # 1 THEN 0
    ELSE IF i + n - 1 > Len(s) THEN 0
    ELSE IF \E k \in 1..n : s[i + k - 1] \notin alt.atoms[k] THEN 0
    ELSE LET e == IF alt.plus THEN Extend(s, i + n, alt.atoms[n]) ELSE i + n
         IN  IF alt.eol /\ e # Len(s) + 1 THEN 0 ELSE e

\* The alternatives are tried in order.
RECURSIVE MatchAt(_, _, _, _)
MatchAt(s, i, re, k) ==
    IF k > Len(re) THEN 0
    ELSE IF MatchEnd(s, i, re[k]) # 0 THEN MatchEnd(s, i, re[k])
    ELSE MatchAt(s, i, re, k + 1)

\* String.prototype.replace(re, r) with the g flag
RECURSIVE ReplaceFrom(_, _, _, _)
ReplaceFrom(s, i, re, r) ==
    IF i > Len(s) THEN <<>>
    ELSE LET e == MatchAt(s, i, re, 1) IN
         IF e = 0 THEN <<s[i]>> \o ReplaceFrom(s, i + 1, re, r)
         ELSE r \o ReplaceFrom(s, e, re, r)

replace(s, re, r) == ReplaceFrom(s, 1, re, r)

(***************************************************************************)
(* createSlug (src/main.ts 25-40)                                          *)
(***************************************************************************)
\* /[^a-z0-9-_]/gi
UnsafeReplaceChar == <<[EmptyAlt EXCEPT !.atoms = <<Chars \ (WordChars \cup {"-"})>>]>>
\* /[^\w\s-]/g
NonWordChar == <<[EmptyAlt EXCEPT !.atoms = <<Chars \ (WordChars \cup Whitespace \cup {"-"})>>]>>
\* /\s+/g
WhitespaceRun == <<[EmptyAlt EXCEPT !.atoms = <<Whitespace>>, !.plus = TRUE]>>

safeReplaceOf(rep) == replace(rep, UnsafeReplaceChar, <<"-">>)

\* new RegExp(`\\${safeReplace}+`, 'g')
CollapsePattern(safeReplace) == RegExp(<<"\\">> \o safeReplace \o <<"+">>)

\* new RegExp(`^\\${safeReplace}|\\${safeReplace}$`, 'g')
StripPattern(safeReplace) ==
    RegExp(<<"^", "\\">> \o safeReplace \o <<"|", "\\">> \o safeReplace \o <<"$">>)

createSlug(title, rep) ==
    IF title = <<>> THEN Thrown("Title must be a non-empty string")
    ELSE LET safeReplace == safeReplaceOf(rep)
             s1 == trim(toLowerCase(title))
             s2 == replace(s1, NonWordChar, <<>>)
             s3 == replace(s2, WhitespaceRun, safeReplace)
             s4 == replace(s3, CollapsePattern(safeReplace), safeReplace)
             s5 == replace(s4, StripPattern(safeReplace), <<>>)
         IN  Returned(s5)

\* Inputs of createSlug
MaxTitleLen == 3
TitleChars  == {"a", "d", "A", "1", " ", "-", "_", "!"}
Titles      == SeqsOf(TitleChars, 0, MaxTitleLen)
Tokens      == { <<"-">>, <<"_">>, <<"!">>, <<"d">>, <<"a">>, <<"A">>, <<"w">>, <<"W">>,
                 <<"-", "-">>, <<"-", "_">>, <<"a", "d">>, <<"!", "!">>,
                 <<"W", "-">>, <<"d", "A">> }

SlugIdle == /\ slugPc = "idle" /\ slugTitle = <<>> /\ slugReplace = <<>>
            /\ slugResult = NoResult
SlugInit == /\ slugPc = "call"
            /\ slugTitle \in Titles
            /\ slugReplace \in Tokens
            /\ slugResult = NoResult

CreateSlug ==
    /\ slugPc = "call"
    /\ slugResult' = createSlug(slugTitle, slugReplace)
    /\ slugPc' = "done"
    /\ UNCHANGED <<slugTitle, slugReplace, titleVars, cryptoVars, sleepVars, priceVars>>

(***************************************************************************)
(* toTitleCase (src/main.ts 51-62)                                         *)
(***************************************************************************)
\* String.prototype.split(' '): the pieces between single space characters
RECURSIVE SplitOnSpace(_, _)
SplitOnSpace(s, cur) ==
    IF s = <<>> THEN <<cur>>
    ELSE IF Head(s) = " " THEN <<cur>> \o SplitOnSpace(Tail(s), <<>>)
    ELSE SplitOnSpace(Tail(s), Append(cur, Head(s)))

split(s) == SplitOnSpace(s, <<>>)

\* Array.prototype.join(' ')
RECURSIVE join(_)
join(words) ==
    IF words = <<>> THEN <<>>
    ELSE IF Len(words) = 1 THEN words[1]
    ELSE words[1] \o <<" ">> \o join(Tail(words))

\* A capitalisation that forgets to drop the first character: charAt(0).toUpperCase() + word
Capitalize_Mut(word) == <<UpperOf(word[1])>> \o word

\* word.charAt(0).toUpperCase() + word.slice(1)
Capitalize(word) == <<UpperOf(word[1])>> \o SubSeq(word, 2, Len(word))

toTitleCase(str) ==
    IF str = <<>> THEN Thrown("Input must be a non-empty string")
    ELSE LET words == SelectSeq(split(toLowerCase(str)), LAMBDA w : Len(w) > 0)
         IN  Returned(join([k \in 1..Len(words) |-> Capitalize(words[k])]))

\* Inputs of toTitleCase: short texts, and the documented example
MaxStrLen  == 4
StrChars   == {"h", "w", "H", "W", " "}
HelloWORLD == <<"h", "e", "l", "l", "o", " ", "W", "O", "R", "L", "D">>
Strs       == SeqsOf(StrChars, 0, MaxStrLen) \cup {HelloWORLD}

TitleIdle == titlePc = "idle" /\ titleStr = <<>> /\ titleResult = NoResult
TitleInit == titlePc = "call" /\ titleStr \in Strs /\ titleResult = NoResult

ToTitleCase ==
    /\ titlePc = "call"
    /\ titleResult' = toTitleCase(titleStr)
    /\ titlePc' = "done"
    /\ UNCHANGED <<titleStr, slugVars, cryptoVars, sleepVars, priceVars>>


(***************************************************************************)
(* TextEncoder / TextDecoder (UTF-8).  A text is a sequence of UTF-16 code *)
(* units, as a JavaScript string is.                                       *)
(***************************************************************************)
IsHighSurrogate(u) == u >= 55296 /\ u <= 56319      \* D800..DBFF
IsLowSurrogate(u)  == u >= 56320 /\ u <= 57343      \* DC00..DFFF
ReplacementChar    == 65533                         \* U+FFFD
ByteOrderMark      == 65279                         \* U+FEFF

Utf8Bytes(cp) ==
    IF cp < 128 THEN <<cp>>
    ELSE IF cp < 2048 THEN <<192 + (cp \div 64), 128 + (cp % 64)>>
    ELSE IF cp < 65536 THEN
        <<224 + (cp \div 4096), 128 + ((cp \div 64) % 64), 128 + (cp % 64)>>
    ELSE <<240 + (cp \div 262144), 128 + ((cp \div 4096) % 64),
           128 + ((cp \div 64) % 64), 128 + (cp % 64)>>

\* new TextEncoder().encode(text): a surrogate pair is one code point, a
\* surrogate on its own is encoded as U+FFFD
RECURSIVE encode(_)
encode(text) ==
    IF text = <<>> THEN <<>>
    ELSE IF /\ IsHighSurrogate(text[1]) /\ Len(text) >= 2 /\ IsLowSurrogate(text[2])
    THEN Utf8Bytes(65536 + (text[1] - 55296) * 1024 + (text[2] - 56320))
             \o encode(SubSeq(text, 3, Len(text)))
    ELSE IF IsHighSurrogate(text[1]) \/ IsLowSurrogate(text[1])
    THEN Utf8Bytes(ReplacementChar) \o encode(Tail(text))
    ELSE Utf8Bytes(text[1]) \o encode(Tail(text))

IsCont(b) == b >= 128 /\ b <= 191
\* the UTF-16 code units of a code point
Utf16Units(cp) ==
    IF cp < 65536 THEN <<cp>>
    ELSE <<55296 + ((cp - 65536) \div 1024), 56320 + ((cp - 65536) % 1024)>>

\* The UTF-8 decoder: well-formed sequences give their code point, any
\* other byte gives U+FFFD.
RECURSIVE DecodeUtf8(_)
DecodeUtf8(b) ==
    IF b = <<>> THEN <<>>
    ELSE IF b[1] < 128 THEN <<b[1]>> \o DecodeUtf8(Tail(b))
    ELSE IF b[1] >= 194 /\ b[1] <= 223 /\ Len(b) >= 2 /\ IsCont(b[2])
    THEN Utf16Units((b[1] - 192) * 64 + (b[2] - 128)) \o DecodeUtf8(SubSeq(b, 3, Len(b)))
    ELSE IF /\ b[1] >= 224 /\ b[1] <= 239 /\ Len(b) >= 3 /\ IsCont(b[2]) /\ IsCont(b[3])
            /\ (b[1] = 224 => b[2] >= 160) /\ (b[1] = 237 => b[2] <= 159)
    THEN Utf16Units((b[1] - 224) * 4096 + (b[2] - 128) * 64 + (b[3] - 128))
             \o DecodeUtf8(SubSeq(b, 4, Len(b)))
    ELSE IF /\ b[1] >= 240 /\ b[1] <= 244 /\ Len(b) >= 4
            /\ IsCont(b[2]) /\ IsCont(b[3]) /\ IsCont(b[4])
            /\ (b[1] = 240 => b[2] >= 144) /\ (b[1] = 244 => b[2] <= 143)
    THEN Utf16Units((b[1] - 240) * 262144 + (b[2] - 128) * 4096
                        + (b[3] - 128) * 64 + (b[4] - 128))
             \o DecodeUtf8(SubSeq(b, 5, Len(b)))
    ELSE <<ReplacementChar>> \o DecodeUtf8(Tail(b))

\* new TextDecoder().decode(bytes): the default decoder (ignoreBOM false)
\* drops a byte order mark that starts the input
decode(bytes) ==
    LET units == DecodeUtf8(bytes)
    IN  IF units # <<>> /\ units[1] = ByteOrderMark THEN Tail(units) ELSE units

(***************************************************************************)
(* JSON.  A JSON text is a sequence of tokens; a parsed value is a record  *)
(* tagged with its type.  Arrays hold numbers, which is all the envelope   *)
(* needs.                                                                  *)
(***************************************************************************)
P(x) == [t |-> x,     s |-> "", n |-> 0]        \* punctuation and null
N(k) == [t |-> "num", s |-> "", n |-> k]        \* a number
S(x) == [t |-> "str", s |-> x,  n |-> 0]        \* a string

JUndefined    == [ty |-> "undefined", n |-> 0, s |-> "", a |-> <<>>, keys |-> <<>>, vals |-> <<>>]
JNull         == [JUndefined EXCEPT !.ty = "null"]
JNum(k)       == [JUndefined EXCEPT !.ty = "num", !.n = k]
JStr(x)       == [JUndefined EXCEPT !.ty = "str", !.s = x]
JArr(a)       == [JUndefined EXCEPT !.ty = "arr", !.a = a]
JObj(ks, vs)  == [JUndefined EXCEPT !.ty = "obj", !.keys = ks, !.vals = vs]

RECURSIVE ArrayItems(_)
ArrayItems(a) ==
    IF a = <<>> THEN <<>>
    ELSE IF Len(a) = 1 THEN <<N(a[1])>>
    ELSE <<N(a[1]), P(",")>> \o ArrayItems(Tail(a))

\* JSON.stringify of an array of numbers
ArrayText(a) == <<P("[")>> \o ArrayItems(a) \o <<P("]")>>

\* JSON.stringify({ iv: [...], encrypted: [...] })
stringify(iv, encrypted) ==
    <<P("{"), S("iv"), P(":")>> \o ArrayText(iv)
        \o <<P(","), S("encrypted"), P(":")>> \o ArrayText(encrypted) \o <<P("}")>>

ParseFail == [ok |-> FALSE, val |-> JUndefined, next |-> 0]
ParseOk(v, i) == [ok |-> TRUE, val |-> v, next |-> i]

\* the elements of an array, toks[i] being the next element
RECURSIVE ParseElems(_, _, _)
ParseElems(toks, i, acc) ==
    IF i + 1 > Len(toks) \/ toks[i].t # "num" THEN ParseFail
    ELSE IF toks[i + 1].t = "," THEN ParseElems(toks, i + 2, Append(acc, toks[i].n))
    ELSE IF toks[i + 1].t = "]" THEN ParseOk(JArr(Append(acc, toks[i].n)), i + 2)
    ELSE ParseFail

RECURSIVE ParseValue(_, _)
RECURSIVE ParseMembers(_, _, _, _)
\* the members of an object, toks[i] being the next member's name
ParseMembers(toks, i, ks, vs) ==
    IF i + 2 > Len(toks) \/ toks[i].t # "str" \/ toks[i + 1].t # ":" THEN ParseFail
    ELSE LET v == ParseValue(toks, i + 2) IN
         IF ~v.ok \/ v.next > Len(toks) THEN ParseFail
         ELSE IF toks[v.next].t = ","
              THEN ParseMembers(toks, v.next + 1, Append(ks, toks[i].s), Append(vs, v.val))
         ELSE IF toks[v.next].t = "}"
              THEN ParseOk(JObj(Append(ks, toks[i].s), Append(vs, v.val)), v.next + 1)
         ELSE ParseFail

ParseValue(toks, i) ==
    IF i > Len(toks) THEN ParseFail
    ELSE CASE toks[i].t = "null" -> ParseOk(JNull, i + 1)
           [] toks[i].t = "num"  -> ParseOk(JNum(toks[i].n), i + 1)
           [] toks[i].t = "str"  -> ParseOk(JStr(toks[i].s), i + 1)
           [] toks[i].t = "["    ->
                IF i + 1 <= Len(toks) /\ toks[i + 1].t = "]"
                THEN ParseOk(JArr(<<>>), i + 2) ELSE ParseElems(toks, i + 1, <<>>)
           [] toks[i].t = "{"    ->
                IF i + 1 <= Len(toks) /\ toks[i + 1].t = "}"
                THEN ParseOk(JObj(<<>>, <<>>), i + 2)
                ELSE ParseMembers(toks, i + 1, <<>>, <<>>)
           [] OTHER -> ParseFail

\* JSON.parse(str): the whole text must be one value
parse(toks) ==
    LET r == ParseValue(toks, 1)
    IN  IF r.ok /\ r.next = Len(toks) + 1 THEN r ELSE ParseFail

\* v.k for a value that is neither null nor undefined
Get(v, k) ==
    IF v.ty = "obj" /\ \E i \in 1..Len(v.keys) : v.keys[i] = k
    THEN v.vals[CHOOSE i \in 1..Len(v.keys) :
                    v.keys[i] = k /\ \A j \in (i + 1)..Len(v.keys) : v.keys[j] # k]
    ELSE JUndefined

\* ToBoolean
Truthy(v) ==
    \/ v.ty \in {"arr", "obj"}
    \/ v.ty = "num" /\ v.n # 0
    \/ v.ty = "str" /\ v.s # ""

\* new Uint8Array(v): an array gives its elements modulo 256, a length gives
\* that many zero bytes, anything else here gives no bytes
Uint8Array(v) ==
    CASE v.ty = "arr" -> [i \in 1..Len(v.a) |-> v.a[i] % 256]
      [] v.ty = "num" -> [i \in 1..v.n |-> 0]
      [] OTHER        -> <<>>

(***************************************************************************)
(* The host's AES-GCM (crypto.subtle).  The cipher is a stand-in with the  *)
(* properties the helpers rely on: the ciphertext is as long as the data   *)
(* plus a tag, decryption with the same key and nonce gives the data back, *)
(* and a wrong key, nonce, byte or tag fails the authentication.           *)
(***************************************************************************)
IVLength  == 12
TagLength == 16

NoKey        == [kind |-> "null", material |-> 0]
NotAKey      == [kind |-> "object", material |-> 0]     \* truthy, but no CryptoKey
CryptoKey(m) == [kind |-> "CryptoKey", material |-> m]

RECURSIVE Sum(_)
Sum(a) == IF a = <<>> THEN 0 ELSE a[1] + Sum(Tail(a))

KeyStream(key, iv, i) == (key.material * 31 + Sum(iv) * 7 + i * 13) % 256
Tag(key, iv, ct) ==
    [j \in 1..TagLength |-> (key.material * 17 + Sum(iv) * 5 + Sum(ct) * 3 + Len(ct) + j) % 256]

\* window.crypto.subtle.encrypt({name: "AES-GCM", iv}, key, data)
SubtleEncrypt(key, iv, data) ==
    IF key.kind # "CryptoKey" THEN ThrownBy("TypeError", "not of type CryptoKey")
    ELSE LET ct == [i \in 1..Len(data) |-> (data[i] + KeyStream(key, iv, i)) % 256]
         IN  Returned(ct \o Tag(key, iv, ct))

\* window.crypto.subtle.decrypt({name: "AES-GCM", iv}, key, bytes)
SubtleDecrypt(key, iv, bytes) ==
    IF key.kind # "CryptoKey" THEN ThrownBy("TypeError", "not of type CryptoKey")
    ELSE IF Len(bytes) < TagLength THEN ThrownBy("OperationError", "")
    ELSE LET ct  == SubSeq(bytes, 1, Len(bytes) - TagLength)
             tag == SubSeq(bytes, Len(bytes) - TagLength + 1, Len(bytes))
         IN  IF tag # Tag(key, iv, ct) THEN ThrownBy("OperationError", "")
             ELSE Returned([i \in 1..Len(ct) |->
                               (ct[i] + 256 - KeyStream(key, iv, i)) % 256])

\* An IV buffer as long as an AES block instead of the 12 bytes of GCM
NewIvBuffer_Mut == [i \in 1..16 |-> 0]

\* new Uint8Array(12)
NewIvBuffer == [i \in 1..IVLength |-> 0]

\* window.crypto.getRandomValues(buf): every byte is overwritten by the
\* random source; seed names one outcome of the source
RandomByte(seed, i) == (seed * 37 + i * 11) % 256
getRandomValues(buf, seed) == [i \in 1..Len(buf) |-> RandomByte(seed, i)]

(***************************************************************************)
(* generateKey (src/main.ts 92-110)                                        *)
(***************************************************************************)
\* The host: whether the identifier window is declared at all and what it
\* holds, and whether window.crypto and window.crypto.subtle are there.
Envs == [window : {"undeclared", "undefined", "object"},
         crypto : {"undefined", "object"},
         subtle : {"undefined", "object"}]
BrowserEnv == [window |-> "object", crypto |-> "object", subtle |-> "object"]

\* getErrorMessage(error): the message of the error caught
getErrorMessage(error) == error.cause

\* window?.crypto?.subtle: reading an undeclared identifier throws a
\* ReferenceError, optional chaining or not; undefined short-circuits
SubtleOf(e) ==
    IF e.window = "undeclared" THEN ThrownBy("ReferenceError", "window is not defined")
    ELSE IF e.window = "object" /\ e.crypto = "object" /\ e.subtle = "object"
    THEN Returned(<<"subtle">>)
    ELSE Returned(<<>>)

Awaiting == [ok |-> FALSE, val |-> <<>>, err |-> "awaiting", cause |-> ""]

\* generateKey up to its await: the failure it ends with, or Awaiting
generateKeyBegin(e) ==
    LET subtle == SubtleOf(e) IN
    IF ~subtle.ok THEN subtle
    ELSE IF subtle.val = <<>>
    THEN Thrown("Web Crypto API is not supported in this environment")
    ELSE Awaiting

\* generateKey after its await, outcome being what subtle.generateKey gave
generateKeyEnd(outcome) ==
    IF outcome.ok THEN outcome
    ELSE ThrownBy("Failed to generate encryption key", getErrorMessage(outcome))

\* What subtle.generateKey can give: a key, or a failure with a message
NumKeyMaterials == 3
GenFailures == {"quota exceeded", "operation failed"}
GenOutcomes == {Returned(CryptoKey(m)) : m \in 1..NumKeyMaterials}
                  \cup {ThrownBy("OperationError", c) : c \in GenFailures}

GenerateKeyCallOf(limit) ==
    /\ Len(genCalls) < limit
    /\ genCalls' = Append(genCalls, [primitiveCalls |-> IF generateKeyBegin(env) = Awaiting
                                                        THEN 1 ELSE 0,
                                     result |-> generateKeyBegin(env)])
    /\ UNCHANGED <<env, encCalls, rngLog, decCalls, slugVars, titleVars, sleepVars, priceVars>>

GenerateKeySettle ==
    \E i \in 1..Len(genCalls), outcome \in GenOutcomes :
        /\ genCalls[i].result = Awaiting
        /\ genCalls' = [genCalls EXCEPT ![i].result = generateKeyEnd(outcome)]
        /\ UNCHANGED <<env, encCalls, rngLog, decCalls, slugVars, titleVars, sleepVars, priceVars>>

\* the keys generateKey has returned
GeneratedKeys == {genCalls[i].result.val : i \in {j \in 1..Len(genCalls) : genCalls[j].result.ok}}

(***************************************************************************)
(* encryptText (src/main.ts 122-152)                                       *)
(***************************************************************************)
\* A call at or after its await: what it was given, what it holds, and how
\* many times it invoked the host's primitive.
CallRec(arg, key, iv, bytes, primitiveCalls, result) ==
    [arg |-> arg, key |-> key, iv |-> iv, bytes |-> bytes,
     primitiveCalls |-> primitiveCalls, result |-> result]

\* encryptText up to its await
encryptTextBegin(text, key, seed) ==
    IF text = <<>> THEN CallRec(text, key, <<>>, <<>>, 0, Thrown("Text must be a non-empty string"))
    ELSE IF key.kind = "null"
    THEN CallRec(text, key, <<>>, <<>>, 0, Thrown("A valid CryptoKey is required"))
    ELSE CallRec(text, key, getRandomValues(NewIvBuffer, seed), encode(text), 1, Awaiting)

\* encryptText after its await
encryptTextEnd(call) ==
    LET encrypted == SubtleEncrypt(call.key, call.iv, call.bytes) IN
    IF encrypted.ok THEN Returned(stringify(call.iv, encrypted.val))
    ELSE ThrownBy("Encryption failed", getErrorMessage(encrypted))

\* the key arguments a caller has at hand
KeyArgs == GeneratedKeys \cup {NoKey, NotAKey}

\* The outcomes of the random source
NumSeeds == 2
Seeds    == 0..(NumSeeds - 1)

EncryptCallOf(texts, limit) ==
    /\ Len(encCalls) < limit
    /\ \E text \in texts, key \in KeyArgs, seed \in Seeds :
          LET call == encryptTextBegin(text, key, seed) IN
          /\ encCalls' = Append(encCalls, call)
          /\ rngLog' = IF call.result = Awaiting
                       THEN Append(rngLog, [call |-> Len(encCalls) + 1, seed |-> seed])
                       ELSE rngLog
    /\ UNCHANGED <<env, genCalls, decCalls, slugVars, titleVars, sleepVars, priceVars>>

EncryptSettle ==
    \E i \in 1..Len(encCalls) :
        /\ encCalls[i].result = Awaiting
        /\ encCalls' = [encCalls EXCEPT ![i].result = encryptTextEnd(encCalls[i])]
        /\ UNCHANGED <<env, genCalls, rngLog, decCalls, slugVars, titleVars, sleepVars, priceVars>>

(***************************************************************************)
(* decryptText (src/main.ts 163-198)                                       *)
(***************************************************************************)
\* decryptText up to its await; every failure inside the try block,
\* the format check's own Error included, reaches the one catch clause
decryptTextBegin(str, key) ==
    IF str = <<>>
    THEN CallRec(str, key, <<>>, <<>>, 0, Thrown("Encrypted string must be a non-empty string"))
    ELSE IF key.kind = "null"
    THEN CallRec(str, key, <<>>, <<>>, 0, Thrown("A valid CryptoKey is required"))
    ELSE LET encryptedData == parse(str) IN
         IF ~encryptedData.ok
         THEN CallRec(str, key, <<>>, <<>>, 0,
                      ThrownBy("Decryption failed", "Unexpected token in JSON"))
         ELSE IF encryptedData.val.ty = "null"
         THEN CallRec(str, key, <<>>, <<>>, 0,
                      ThrownBy("Decryption failed", "Cannot read properties of null"))
         ELSE IF \/ ~Truthy(Get(encryptedData.val, "iv"))
                 \/ ~Truthy(Get(encryptedData.val, "encrypted"))
         THEN CallRec(str, key, <<>>, <<>>, 0,
                      ThrownBy("Decryption failed", "Invalid encrypted data format"))
         ELSE CallRec(str, key, Uint8Array(Get(encryptedData.val, "iv")),
                      Uint8Array(Get(encryptedData.val, "encrypted")), 1, Awaiting)

\* decryptText after its await
decryptTextEnd(call) ==
    LET decrypted == SubtleDecrypt(call.key, call.iv, call.bytes) IN
    IF decrypted.ok THEN Returned(decode(decrypted.val))
    ELSE ThrownBy("Decryption failed", getErrorMessage(decrypted))

\* Payloads that are no envelope: not JSON, JSON that is no object, and
\* objects that lack a field or hold an empty one
ArrOf1 == <<P("["), N(1), P("]")>>
HandMadePayloads ==
    { <<P("{")>>,
      <<P("{"), S("iv"), P(":"), P("}")>>,
      <<P("null")>>,
      <<N(7)>>,
      ArrOf1,
      <<P("{"), P("}")>>,
      <<P("{"), S("iv"), P(":")>> \o ArrOf1 \o <<P("}")>>,
      <<P("{"), S("encrypted"), P(":")>> \o ArrOf1 \o <<P("}")>>,
      <<P("{"), S("iv"), P(":"), N(0), P(","), S("encrypted"), P(":")>> \o ArrOf1 \o <<P("}")>>,
      <<P("{"), S("iv"), P(":")>> \o ArrOf1 \o <<P(","), S("encrypted"), P(":")>>
          \o ArrOf1 \o <<P("}")>> }

\* the envelopes encryptText has returned
Envelopes == {encCalls[i].result.val : i \in {j \in 1..Len(encCalls) : encCalls[j].result.ok}}

\* an envelope with its last ciphertext byte changed
Tampered(envelope) ==
    [envelope EXCEPT ![Len(envelope) - 2] = N((@.n + 1) % 256)]

Payloads == {<<>>} \cup HandMadePayloads \cup Envelopes \cup {Tampered(e) : e \in Envelopes}

DecryptCallOf(limit) ==
    /\ Len(decCalls) < limit
    /\ \E str \in Payloads, key \in KeyArgs :
          decCalls' = Append(decCalls, decryptTextBegin(str, key))
    /\ UNCHANGED <<env, genCalls, encCalls, rngLog, slugVars, titleVars, sleepVars, priceVars>>

DecryptSettle ==
    \E i \in 1..Len(decCalls) :
        /\ decCalls[i].result = Awaiting
        /\ decCalls' = [decCalls EXCEPT ![i].result = decryptTextEnd(decCalls[i])]
        /\ UNCHANGED <<env, genCalls, encCalls, rngLog, slugVars, titleVars, sleepVars, priceVars>>

\* Inputs of the crypto helpers
MaxTextLen  == 2
CodeUnits   == {97, 233, 65279, 55357, 56832}   \* a, e-acute, U+FEFF, a surrogate pair's halves
Texts       == SeqsOf(CodeUnits, 0, MaxTextLen)
NonceTexts  == {<<>>, <<97>>}
MaxGenCalls == 3
MaxEncrypts == 2

CryptoIdle == /\ env = BrowserEnv /\ genCalls = <<>> /\ encCalls = <<>>
              /\ rngLog = <<>> /\ decCalls = <<>>
KeyInit    == /\ env \in Envs /\ genCalls = <<>> /\ encCalls = <<>>
              /\ rngLog = <<>> /\ decCalls = <<>>

GenerateKeyCall  == GenerateKeyCallOf(MaxGenCalls)
GenerateKeyOnce  == GenerateKeyCallOf(1)
EncryptCall      == EncryptCallOf(Texts, 1)
EncryptCallAgain == EncryptCallOf(NonceTexts, MaxEncrypts)
DecryptCall      == DecryptCallOf(1)

(***************************************************************************)
(* Numbers.  A JavaScript value given where a number is expected: a finite *)
(* number sign * (hi * 65536 + lo) / 10^scale, NaN, an infinity, or a      *)
(* value of another type.                                                  *)
(***************************************************************************)
Half == 65536       \* 2^16: hi counts units of 2^16, so 2^31 and 2^32 fit
Finite(sign, hi, lo, scale) ==
    [kind |-> "number", sign |-> sign, hi |-> hi, lo |-> lo, scale |-> scale]
Num(k)      == IF k < 0 THEN Finite(-1, 0, -k, 0) ELSE Finite(1, 0, k, 0)
NaN         == [kind |-> "NaN",       sign |-> 1,  hi |-> 0, lo |-> 0, scale |-> 0]
Infinity    == [kind |-> "Infinity",  sign |-> 1,  hi |-> 0, lo |-> 0, scale |-> 0]
NegInfinity == [kind |-> "Infinity",  sign |-> -1, hi |-> 0, lo |-> 0, scale |-> 0]
NotANumber  == [kind |-> "string",    sign |-> 1,  hi |-> 0, lo |-> 0, scale |-> 0]

\* Number.isFinite(v): false for every value that is not a number
isFinite(v) == v.kind = "number"
\* v < 0, for a number
LessThanZero(v) ==
    \/ v.kind = "number" /\ v.sign = -1 /\ (v.hi > 0 \/ v.lo > 0)
    \/ v.kind = "Infinity" /\ v.sign = -1

(***************************************************************************)
(* sleep (src/main.ts 210-232)                                             *)
(***************************************************************************)
\* The delay a timer is armed with: setTimeout takes its delay as a signed
\* 32-bit integer (the value modulo 2^32, read as two's complement), and a
\* negative delay counts as 0.
TimerDelay(ms) ==
    LET h == ms.hi % Half IN
    IF ms.sign = -1 \/ h >= Half \div 2 THEN 0 ELSE h * Half + ms.lo

\* A sleep that also refuses a zero duration
DurationRefused_Mut(ms) == ~isFinite(ms) \/ LessThanZero(ms) \/ (ms.hi = 0 /\ ms.lo = 0)

\* !Number.isFinite(ms) || ms < 0
DurationRefused(ms) == ~isFinite(ms) \/ LessThanZero(ms)

\* sleep(ms, cb) at time t, up to its return: it throws, or it arms a timer
\* and returns a pending promise
sleepBegin(ms, cb, t) ==
    IF DurationRefused(ms)
    THEN [ms |-> ms, cb |-> cb, calledAt |-> t,
          thrown |-> "Sleep duration must be a positive number",
          promise |-> "none", value |-> "", timer |-> "none", due |-> 0,
          cbRuns |-> 0, settledAt |-> 0]
    ELSE [ms |-> ms, cb |-> cb, calledAt |-> t, thrown |-> "",
          promise |-> "pending", value |-> "", timer |-> "armed",
          due |-> t + TimerDelay(ms), cbRuns |-> 0, settledAt |-> 0]

\* the function given to setTimeout, run at time t
timerCallback(call, t) ==
    IF call.cb = "raises"
    THEN [call EXCEPT !.timer = "fired", !.cbRuns = @ + 1, !.promise = "rejected",
                      !.value = "callback error", !.settledAt = t]
    ELSE [call EXCEPT !.timer = "fired",
                      !.cbRuns = IF call.cb = "none" THEN @ ELSE @ + 1,
                      !.promise = "fulfilled", !.value = "true", !.settledAt = t]

\* Inputs of sleep
MaxSleeps == 2
MaxTime   == 2
MsArgs    == {Num(-1), Num(0), Num(1), Num(2), Finite(1, Half \div 2, 0, 0),
              NaN, Infinity, NotANumber}
Callbacks == {"none", "returns", "raises"}

SleepCall ==
    /\ Len(sleepCalls) < MaxSleeps
    /\ \E ms \in MsArgs, cb \in Callbacks :
          sleepCalls' = Append(sleepCalls, sleepBegin(ms, cb, now))
    /\ UNCHANGED <<now, slugVars, titleVars, cryptoVars, priceVars>>

Tick ==
    /\ now < MaxTime
    /\ now' = now + 1
    /\ UNCHANGED <<sleepCalls, slugVars, titleVars, cryptoVars, priceVars>>

\* a timer fires once its delay has passed, no sooner
TimerFire ==
    \E i \in 1..Len(sleepCalls) :
        /\ sleepCalls[i].timer = "armed"
        /\ now >= sleepCalls[i].due
        /\ sleepCalls' = [sleepCalls EXCEPT ![i] = timerCallback(@, now)]
        /\ UNCHANGED <<now, slugVars, titleVars, cryptoVars, priceVars>>

(***************************************************************************)
(* formatPrice (src/main.ts 273-303)                                       *)
(***************************************************************************)
DecimalDigits == {"0", "1", "5"}
DigitValue(c) == CASE c = "0" -> 0 [] c = "1" -> 1 [] c = "5" -> 5

RECURSIVE LeadingDigits(_)
LeadingDigits(s) ==
    IF s # <<>> /\ s[1] \in DecimalDigits THEN <<s[1]>> \o LeadingDigits(Tail(s)) ELSE <<>>

RECURSIVE DigitsValue(_)
DigitsValue(d) == IF d = <<>> THEN 0 ELSE DigitsValue(SubSeq(d, 1, Len(d) - 1)) * 10
                                              + DigitValue(d[Len(d)])

InfinityText == <<"I", "n", "f", "i", "n", "i", "t", "y">>

\* parseFloat(text): leading whitespace is skipped and the longest prefix
\* that is a decimal literal is read; what follows it is ignored; NaN when
\* there is no such prefix.  (No text here holds an exponent.)
parseFloat(text) ==
    LET t      == TrimLeft(text)
        signed == t # <<>> /\ t[1] \in {"-", "+"}
        sign   == IF t # <<>> /\ t[1] = "-" THEN -1 ELSE 1
        body   == IF signed THEN Tail(t) ELSE t
        int    == LeadingDigits(body)
        rest   == SubSeq(body, Len(int) + 1, Len(body))
        frac   == IF rest # <<>> /\ rest[1] = "." THEN LeadingDigits(Tail(rest)) ELSE <<>>
    IN  IF Len(body) >= Len(InfinityText)
            /\ SubSeq(body, 1, Len(InfinityText)) = InfinityText
        THEN [Infinity EXCEPT !.sign = sign]
        ELSE IF int = <<>> /\ frac = <<>> THEN NaN
        ELSE Finite(sign, 0, DigitsValue(int \o frac), Len(frac))

\* new Intl.NumberFormat('en-IN', {style: 'currency', currency, notation,
\* maximumFractionDigits: 2}).format(n): a RangeError for a currency code
\* that is not three letters or a notation that is not one of the known
\* ones, else the rendering (kept as its parts)
KnownNotations == {"compact", "standard", "scientific", "engineering"}
NumberFormat(currency, notation, n) ==
    IF Len(currency) # 3 THEN ThrownBy("RangeError", "Invalid currency code")
    ELSE IF notation \notin KnownNotations
    THEN ThrownBy("RangeError", "Value out of range for notation")
    ELSE Returned(<<[currency |-> currency, notation |-> notation, number |-> n]>>)

\* A price argument is a number or a text.
NumArg(v)  == [type |-> "number", num |-> v,   text |-> <<>>]
TextArg(t) == [type |-> "string", num |-> NaN, text |-> t]

\* typeof price === 'string' ? parseFloat(price) : price
NumericPrice(price) ==
    IF price.type = "string" THEN parseFloat(price.text) ELSE price.num

formatPrice(price, options) ==
    LET numericPrice == NumericPrice(price) IN
    IF ~isFinite(numericPrice) THEN Thrown("Invalid price value provided")
    ELSE IF LessThanZero(numericPrice) THEN Thrown("Price cannot be negative")
    ELSE LET formatted == NumberFormat(options.currency, options.notation, numericPrice)
         IN  IF formatted.ok THEN formatted
             ELSE ThrownBy("Price formatting failed", getErrorMessage(formatted))

\* Inputs of formatPrice
MaxPriceLen == 3
PriceChars  == {"1", "5", "-", ".", "x", " "}
PriceArgs   ==
    {NumArg(v) : v \in {Num(0), Num(1), Num(-1), Finite(1, 0, 15, 1), Finite(-1, 0, 0, 0),
                        NaN, Infinity, NegInfinity}}
        \cup {TextArg(t) : t \in SeqsOf(PriceChars, 0, MaxPriceLen)}
        \cup {TextArg(InfinityText), TextArg(<<"-">> \o InfinityText)}
PriceOptions == [currency : {<<"I", "N", "R">>, <<"U", "S", "D">>, <<"R", "s">>},
                 notation : {"compact", "standard", "short"}]

PriceInit == /\ pricePc = "call" /\ priceArg \in PriceArgs /\ priceOpts \in PriceOptions
             /\ priceResult = NoResult

FormatPrice ==
    /\ pricePc = "call"
    /\ priceResult' = formatPrice(priceArg, priceOpts)
    /\ pricePc' = "done"
    /\ UNCHANGED <<priceArg, priceOpts, slugVars, titleVars, cryptoVars, sleepVars>>

(***************************************************************************)
(* Properties of createSlug                                                *)
(***************************************************************************)
StartsWith(s, t) == Len(t) <= Len(s) /\ SubSeq(s, 1, Len(t)) = t
EndsWith(s, t)   == Len(t) <= Len(s) /\ SubSeq(s, Len(s) - Len(t) + 1, Len(s)) = t
OccursAt(s, j, t) == j >= 1 /\ j + Len(t) - 1 <= Len(s) /\ SubSeq(s, j, j + Len(t) - 1) = t
Contains(s, t)   == \E j \in 1..Len(s) : OccursAt(s, j, t)
\* position i of s lies inside an occurrence of t
InOccurrence(s, i, t) == \E j \in 1..i : i < j + Len(t) /\ OccursAt(s, j, t)

SlugDone == slugPc = "done" /\ slugTitle # <<>>
SlugToken == safeReplaceOf(slugReplace)

\* C3: for every non-empty title and every replacement token, the slug
\* returned never starts with the sanitized token, never ends with it and
\* never holds two consecutive occurrences of it.
CE_C3 ==
    SlugDone =>
        /\ slugResult.ok
        /\ ~StartsWith(slugResult.val, SlugToken)
        /\ ~EndsWith(slugResult.val, SlugToken)
        /\ ~Contains(slugResult.val, SlugToken \o SlugToken)

NonSpaceAt(s) == SelectSeq([i \in 1..Len(s) |-> i], LAMBDA i : s[i] # " ")
WordStart(s, i) == s[i] # " " /\ (i = 1 \/ s[i - 1] = " ")
SingleSpaced(s) ==
    /\ s # <<>> => s[1] # " " /\ s[Len(s)] # " "
    /\ \A i \in 1..Len(s) - 1 : ~(s[i] = " " /\ s[i + 1] = " ")

TitleDone == titlePc = "done" /\ titleStr # <<>>

\* The words of out are the words of in, in order, each character mapped
\* by first (a word's first character) or rest (its later characters).
WordsMapped(in, out, first(_), rest(_)) ==
    LET pin == NonSpaceAt(in)  pout == NonSpaceAt(out) IN
    /\ Len(pin) = Len(pout)
    /\ \A k \in 1..Len(pout) :
          /\ WordStart(out, pout[k]) <=> WordStart(in, pin[k])
          /\ out[pout[k]] = IF WordStart(in, pin[k]) THEN first(in[pin[k]])
                            ELSE rest(in[pin[k]])

AsGiven(c)    == c
UpperFirst(c) == UpperOf(LowerOf(c))

ErrorCategory(result) ==
    CASE result.err = "Title must be a non-empty string"            -> "InvalidArgument"
      [] result.err = "Input must be a non-empty string"            -> "InvalidArgument"
      [] result.err = "Text must be a non-empty string"             -> "InvalidArgument"
      [] result.err = "Encrypted string must be a non-empty string" -> "InvalidArgument"
      [] result.err = "A valid CryptoKey is required"               -> "InvalidArgument"
      [] result.err = "Sleep duration must be a positive number"    -> "InvalidArgument"
      [] result.err = "Web Crypto API is not supported in this environment"
                                                                    -> "EnvironmentUnsupported"
      [] result.err = "Failed to generate encryption key"           -> "KeyGenerationFailed"
      [] result.err = "Encryption failed"                           -> "EncryptionFailed"
      [] result.err = "Invalid encrypted data format"               -> "MalformedPayload"
      [] result.err = "Decryption failed"                           -> "DecryptionFailed"
      [] result.err = "Invalid price value provided"                -> "InvalidPrice"
      [] result.err = "Price cannot be negative"                    -> "NegativePrice"
      [] result.err = "Price formatting failed"                     -> "PriceFormattingFailed"
      [] OTHER                                                      -> result.err

Settled(call) == call.result # Awaiting

\* C1: decryptText(encryptText(t, k), k), for a key k that generateKey
\* returned, completes and returns exactly t.
CE_C1 ==
    \A d \in 1..Len(decCalls), e \in 1..Len(encCalls) :
        ( /\ encCalls[e].result.ok
          /\ encCalls[e].key \in GeneratedKeys
          /\ decCalls[d].arg = encCalls[e].result.val
          /\ decCalls[d].key = encCalls[e].key
          /\ Settled(decCalls[d]) )
        => decCalls[d].result = Returned(encCalls[e].arg)

\* the nonce field of an envelope
IvField(envelope) == Get(parse(envelope).val, "iv")

\* C2 as stated: no two successful encryptText calls made with the same
\* key return envelopes with the same nonce.
CE_C2 ==
    \A i, j \in 1..Len(encCalls) :
        ( /\ i # j /\ encCalls[i].result.ok /\ encCalls[j].result.ok
          /\ encCalls[i].key = encCalls[j].key )
        => IvField(encCalls[i].result.val) # IvField(encCalls[j].result.val)

\* C2 as amended: every encryptText call that passes its argument checks
\* draws once from the random source, and the envelope of a successful call
\* carries exactly the 12 bytes that draw gave; two envelopes carry the
\* same nonce only when the random source gave the same bytes twice.
Thm_C2 ==
    /\ \A i \in 1..Len(encCalls) :
          Cardinality({k \in 1..Len(rngLog) : rngLog[k].call = i})
              = encCalls[i].primitiveCalls
    /\ \A k \in 1..Len(rngLog) :
          encCalls[rngLog[k].call].result.ok =>
              LET iv == IvField(encCalls[rngLog[k].call].result.val) IN
              /\ iv.ty = "arr"
              /\ Len(iv.a) = IVLength
              /\ \A b \in 1..IVLength : iv.a[b] = RandomByte(rngLog[k].seed, b)
    /\ \A k, l \in 1..Len(rngLog) :
          ( /\ encCalls[rngLog[k].call].result.ok /\ encCalls[rngLog[l].call].result.ok
            /\ rngLog[k].seed # rngLog[l].seed )
          => IvField(encCalls[rngLog[k].call].result.val)
                 # IvField(encCalls[rngLog[l].call].result.val)

\* two successful calls with one generated key, their nonces drawn apart
Wit_C2 ==
    \E i, j \in 1..Len(encCalls) :
        /\ i < j /\ encCalls[i].result.ok /\ encCalls[j].result.ok
        /\ encCalls[i].key = encCalls[j].key
        /\ encCalls[i].key \in GeneratedKeys
        /\ IvField(encCalls[i].result.val) # IvField(encCalls[j].result.val)

\* a payload that does not parse as an envelope, or lacks one of its fields
NotAnEnvelope(str) ==
    LET p == parse(str) IN
    \/ ~p.ok
    \/ p.val.ty # "obj"
    \/ \A i \in 1..Len(p.val.keys) : p.val.keys[i] # "iv"
    \/ \A i \in 1..Len(p.val.keys) : p.val.keys[i] # "encrypted"

\* C6: for a non-empty payload and a non-null key, a payload that is no
\* envelope fails with MalformedPayload, a category distinct from
\* DecryptionFailed, without the decryption primitive being invoked;
\* DecryptionFailed is reported only for failures of the primitive.
CE_C6 ==
    \A d \in 1..Len(decCalls) :
        /\ ( /\ decCalls[d].arg # <<>> /\ decCalls[d].key.kind # "null"
             /\ NotAnEnvelope(decCalls[d].arg) )
           => /\ ErrorCategory(decCalls[d].result) = "MalformedPayload"
              /\ decCalls[d].primitiveCalls = 0
        /\ ErrorCategory(decCalls[d].result) = "DecryptionFailed"
           => decCalls[d].primitiveCalls = 1

\* C10: when window, window.crypto or window.crypto.subtle is absent,
\* generateKey fails with EnvironmentUnsupported and nothing else, before
\* any key-generation call; a failure of the primitive is reported as
\* KeyGenerationFailed carrying the cause's message.
HostLacksSubtle == SubtleOf(env) # Returned(<<"subtle">>)
CE_C10 ==
    \A i \in 1..Len(genCalls) :
        /\ HostLacksSubtle =>
              /\ ErrorCategory(genCalls[i].result) = "EnvironmentUnsupported"
              /\ genCalls[i].primitiveCalls = 0
        /\ ( ~HostLacksSubtle /\ Settled(genCalls[i]) /\ ~genCalls[i].result.ok ) =>
              /\ ErrorCategory(genCalls[i].result) = "KeyGenerationFailed"
              /\ genCalls[i].result.cause \in GenFailures

(***************************************************************************)
(* Properties of sleep                                                     *)
(***************************************************************************)
\* a finite number that is zero or more
FiniteNonNegative(v) == v.kind = "number" /\ (v.sign = 1 \/ (v.hi = 0 /\ v.lo = 0))

CE_C8 ==
    \A i \in 1..Len(sleepCalls) :
        LET c == sleepCalls[i] IN
        c.thrown = "" =>
            /\ c.promise = "pending" => c.cbRuns = 0
            /\ c.promise # "pending" =>
                  /\ c.ms.hi = 0 /\ c.settledAt - c.calledAt >= c.ms.lo
                  /\ c.cbRuns = IF c.cb = "none" THEN 0 ELSE 1
            /\ c.promise = "fulfilled" => c.value = "true" /\ c.cb # "raises"
            /\ c.promise = "rejected" => c.value = "callback error" /\ c.cb = "raises"

(***************************************************************************)
(* Properties of formatPrice                                               *)
(***************************************************************************)
\* a text that is, as a whole, a decimal literal or an infinity
IsNumericText(t) ==
    LET b    == trim(t)
        body == IF b # <<>> /\ b[1] \in {"-", "+"} THEN Tail(b) ELSE b
    IN  \/ body = InfinityText
        \/ /\ \A i \in 1..Len(body) : body[i] \in DecimalDigits \cup {"."}
           /\ Cardinality({i \in 1..Len(body) : body[i] = "."}) <= 1
           /\ \E i \in 1..Len(body) : body[i] \in DecimalDigits

\* the value a price argument denotes (of a text: when it is numeric)
Denoted(price) == IF price.type = "string" THEN parseFloat(price.text) ELSE price.num
IsNumeric(price) == price.type = "number" \/ IsNumericText(price.text)

\* C9: a text that is not numeric and a non-finite value fail with
\* InvalidPrice; a finite negative value fails with NegativePrice; only
\* finite non-negative values reach the formatter, whose failure is
\* reported as PriceFormattingFailed.
CE_C9 ==
    pricePc = "done" =>
        /\ ~IsNumeric(priceArg) => ErrorCategory(priceResult) = "InvalidPrice"
        /\ (IsNumeric(priceArg) /\ ~isFinite(Denoted(priceArg)))
               => ErrorCategory(priceResult) = "InvalidPrice"
        /\ (IsNumeric(priceArg) /\ isFinite(Denoted(priceArg))
                /\ LessThanZero(Denoted(priceArg)))
               => ErrorCategory(priceResult) = "NegativePrice"
        /\ (priceResult.ok \/ ErrorCategory(priceResult) = "PriceFormattingFailed")
               => /\ IsNumeric(priceArg) /\ isFinite(Denoted(priceArg))
                  /\ ~LessThanZero(Denoted(priceArg))
        /\ ErrorCategory(priceResult) = "PriceFormattingFailed"
               => ~NumberFormat(priceOpts.currency, priceOpts.notation,
                                Denoted(priceArg)).ok

(***************************************************************************)
(* Specifications: one per helper, the other helpers' state left idle.     *)
(***************************************************************************)
SleepIdle == now = 0 /\ sleepCalls = <<>>
PriceIdle == /\ pricePc = "idle" /\ priceArg = NumArg(Num(0))
             /\ priceOpts = [currency |-> <<"I", "N", "R">>, notation |-> "compact"]
             /\ priceResult = NoResult

InitSlug == SlugInit /\ TitleIdle /\ CryptoIdle /\ SleepIdle /\ PriceIdle
NextSlug == CreateSlug
SpecSlug == InitSlug /\ [][NextSlug]_vars

InitTitle == TitleInit /\ SlugIdle /\ CryptoIdle /\ SleepIdle /\ PriceIdle
NextTitle == ToTitleCase
SpecTitle == InitTitle /\ [][NextTitle]_vars

InitKey == KeyInit /\ SlugIdle /\ TitleIdle /\ SleepIdle /\ PriceIdle
NextKey == GenerateKeyCall \/ GenerateKeySettle
SpecKey == InitKey /\ [][NextKey]_vars

InitCrypto == CryptoIdle /\ SlugIdle /\ TitleIdle /\ SleepIdle /\ PriceIdle
NextCrypto ==
    \/ GenerateKeyOnce \/ GenerateKeySettle
    \/ EncryptCall \/ EncryptSettle
    \/ DecryptCall \/ DecryptSettle
SpecCrypto == InitCrypto /\ [][NextCrypto]_vars

NextNonce == GenerateKeyOnce \/ GenerateKeySettle \/ EncryptCallAgain \/ EncryptSettle
SpecNonce == InitCrypto /\ [][NextNonce]_vars

InitSleep == SleepIdle /\ SlugIdle /\ TitleIdle /\ CryptoIdle /\ PriceIdle
NextSleep == SleepCall \/ Tick \/ TimerFire
SpecSleep == InitSleep /\ [][NextSleep]_vars

InitPrice == PriceInit /\ SlugIdle /\ TitleIdle /\ CryptoIdle /\ SleepIdle
NextPrice == FormatPrice
SpecPrice == InitPrice /\ [][NextPrice]_vars

====
